---- MODULE Spec2Model ----
(***************************************************************************)
(* TCP layer decoder of packet/transport/tcp.py: the per-stream sequence   *)
(* normalisation of TCP.__init__ and the RPC reassembly of                 *)
(* TCP._decode_payload, driven by a capture reader that may be asked to    *)
(* read the same capture record again.                                     *)
(*                                                                         *)
(* Bytes are scaled to one bit each (Byte == {0, 1}) and the 32-bit        *)
(* sequence space to SeqMod values, because TLC's integers are 32 bits     *)
(* wide; every formula of the source is kept, with 4294967296 read as      *)
(* SeqMod.  The RPC decoder, the Unpack cursor and the capture reader are  *)
(* not in src/ and are modelled from the specification's collaborator      *)
(* contracts.                                                              *)
(***************************************************************************)
EXTENDS Integers, Sequences, FiniteSets

VARIABLES
    tcp_stream_map, \* pktt._tcp_stream_map: streamid -> stream state
    pkt,            \* what the last decode left on the packet object
    reread,         \* the capture record the reader was repositioned on, or NoRecord
    feed,           \* capture records still to be read, for the scripted captures
    npkt,           \* number of capture records read so far
    log,            \* RPC layers emitted so far, for the scripted captures
    accepted,       \* per stream, the last accepted segment that carried payload
    before          \* the stream map as the last decode of a scripted capture found it

vars == <<tcp_stream_map, pkt, reread, feed, npkt, log, accepted, before>>

----------------------------------------------------------------------------
(* Bounds of the model *)

\* size of the sequence number space, standing for 2^32
SeqMod == 4
\* capture records read in one behaviour
MaxPkts == 3

----------------------------------------------------------------------------
(* Byte strings and the Unpack cursor *)

Byte == {0, 1}
Radix == Cardinality(Byte)

Min(a, b) == IF a < b THEN a ELSE b

\* bytes left after advancing the cursor n bytes: unpack.seek(unpack.tell() + n)
seek(data, n) == SubSeq(data, n + 1, Len(data))

\* the first n bytes
read(data, n) == SubSeq(data, 1, Min(n, Len(data)))

\* unpack.insert(frag): logical prepend
insert(frag, data) == frag \o data

\* size of the RPC record mark
MarkLen == 4
\* bytes of the RPC header that follow the record mark
HdrLen == 1

\* unpack.unpack_uint(): big-endian value of the first n bytes of data
RECURSIVE unpack_uint(_, _)
unpack_uint(data, n) ==
    IF n = 0 THEN 0 ELSE unpack_uint(data, n - 1) * Radix + data[n]

\* value of the "last fragment" bit of a record mark
LastFragBit == (Radix ^ MarkLen) \div 2

\* rpc.fragment_hdr.size: the low bits of the record mark
fragment_hdr_size(data) == unpack_uint(data, MarkLen) % LastFragBit

\* RPC(pktt, proto=6): truthy when the cursor is on a valid RPC header, that is
\* a record mark with a non-zero size followed by a well-formed header
RPC(data) ==
    /\ Len(data) >= MarkLen + HdrLen
    /\ fragment_hdr_size(data) > 0
    /\ \A i \in 1..HdrLen : data[MarkLen + i] = 1

\* what the RPC constructor leaves after the header it decoded
after_header(data) == seek(data, MarkLen + HdrLen)

\* rpc.decode_payload(): the payload decoder is external; d says whether it
\* returns an object and how far it reads: to the end of the record, not at
\* all, or to the end of the buffer
Decoders ==
    {d \in [rpcload : BOOLEAN, consume : {"record", "nothing", "all"}] :
        d.rpcload \/ d.consume = "nothing"}
WellFormedDecode == [rpcload |-> TRUE, consume |-> "record"]

rpc_decode_payload(data, rpcsize, d) ==
    LET n == CASE d.consume = "record"  -> Min(rpcsize - HdrLen, Len(data))
               [] d.consume = "nothing" -> 0
               [] d.consume = "all"     -> Len(data)
    IN seek(data, n)

----------------------------------------------------------------------------
(* TCP flags *)

\* raw flags of a segment that is just a TCP ACK
ACK_ONLY == 16
\* ACK only, SYN, FIN+ACK
RawFlags == {ACK_ONLY, 2, 17}

\* self.flags.SYN: bit 1 of the raw flags
SYN(rawflags) == (rawflags \div 2) % 2 = 1

----------------------------------------------------------------------------
(* Streams *)

\* streamid: source address and port, destination address and port
NFS_CALL  == <<"client", 1023, "server", 2049>>
NFS_REPLY == <<"server", 2049, "client", 1023>>
DNS_QUERY == <<"client", 1023, "server", 53>>
KRB_REQ   == <<"client", 1023, "server", 88>>

src_port(streamid) == streamid[2]
dst_port(streamid) == streamid[4]

\* the state a stream gets when its streamid is first seen
new_stream(seq_number) ==
    [msfrag |-> <<>>, frag_off |-> 0, last_seq |-> 0, seq_wrap |-> 0,
     seq_base |-> seq_number]

NoRPC == [size |-> -1, off |-> 0, data |-> <<>>]
NoRecord == [streamid |-> <<>>]
NoPkt == [streamid |-> <<>>, seq_number |-> -1, seq |-> -1, length |-> 0,
          rawflags |-> 0, retrans |-> FALSE, rpc |-> NoRPC]
NoFeed == [segs |-> <<>>, records |-> <<>>]

----------------------------------------------------------------------------
(* TCP._decode_payload *)

\* a slip: the offset is recorded with the fragment
save_fragment_with_offset(st, rest) ==
    [st EXCEPT !.msfrag = @ \o rest, !.frag_off = Len(rest)]

\* a slip: the fragments kept so far are appended again with the payload
save_fragment_twice(st, rest) == [st EXCEPT !.msfrag = @ \o @ \o rest]

\* An RPC fragment is missing to decode RPC payload: keep the payload
save_fragment(st, rest) == [st EXCEPT !.msfrag = @ \o rest]

\* the record is decoded: frag_off is cleared when a fragment completed it or
\* when it ends the payload, and msfrag is cleared
clear_fragment(st, ldata, rpcsize) ==
    [st EXCEPT !.frag_off = IF Len(st.msfrag) > 0 \/ ldata = rpcsize THEN 0 ELSE @,
               !.msfrag = <<>>]

\* a slip: the offset is not added to the one before
next_frag_off_not_cumulative(st, size, left) ==
    [st EXCEPT !.frag_off = size - Len(left)]

\* Save the offset of next RPC packet within this TCP packet
\* Data offset is cumulative
next_frag_off(st, size, left) == [st EXCEPT !.frag_off = @ + size - Len(left)]

\* the probe of the bytes left after a record: whether the next RPC packet is
\* entirely within this TCP packet
next_rpc_within(left) ==
    RPC(left) /\ ~(Len(left) - MarkLen < fragment_hdr_size(left))

\* Second half of _decode_payload: an RPC header has been decoded from data
\* (the payload, with msfrag in front of it unless the payload decoded alone).
\* st is the stream after the resets, rest the payload of this segment from
\* the saved cursor, size its length, ldata the bytes after the record mark.
decode_rpc(st, seg, d, data, rest, size, ldata) ==
    LET rpcsize == fragment_hdr_size(data)
        rpc == [size |-> rpcsize,
                off |-> Len(seg.payload) - Len(data),
                data |-> read(data, MarkLen + rpcsize)]
    IN
    IF seg.truncbytes = 0 /\ ldata < rpcsize
    THEN [stream |-> save_fragment(st, rest), rpc |-> NoRPC, seek |-> FALSE]
    ELSE LET st2 == clear_fragment(st, ldata, rpcsize)
             left == rpc_decode_payload(after_header(data), rpcsize, d)
             rpcbytes == ldata - Len(left)
         IN
         IF ~d.rpcload /\ rpcbytes # rpcsize
         THEN [stream |-> st2, rpc |-> rpc, seek |-> FALSE]
         ELSE IF Len(left) > 0
         THEN LET st3 == next_frag_off(st2, size, left)
              IN
              IF ~next_rpc_within(left)
              THEN \* Part of next RPC packet is within this TCP packet
                   [stream |-> [st3 EXCEPT !.msfrag = @ \o left],
                    rpc |-> rpc, seek |-> FALSE]
              ELSE \* Next RPC packet is entirely within this TCP packet
                   [stream |-> st3, rpc |-> rpc, seek |-> TRUE]
         ELSE [stream |-> [st2 EXCEPT !.frag_off = 0],
               rpc |-> rpc, seek |-> FALSE]

\* This RPC packet lies within previous TCP packet,
\* Re-position the offset of the data
reposition(stream, payload) ==
    IF stream.frag_off > 0 /\ Len(stream.msfrag) = 0
    THEN seek(payload, stream.frag_off)
    ELSE payload

\* a slip: the loss of data is never looked for
data_lost_ignored(stream, size, rawflags) == FALSE

\* a slip: the exception for a plain ACK is forgotten
data_lost_on_any_flags(stream, size, rawflags) ==
    size = 0 /\ Len(stream.msfrag) > 0

\* There has been some data lost in the capture: an empty payload while a
\* fragment is kept, except if this packet is just a TCP ACK (flags = 0x10)
data_lost(stream, size, rawflags) ==
    size = 0 /\ Len(stream.msfrag) > 0 /\ rawflags # ACK_ONLY

\* _decode_payload(pktt, stream): the stream afterwards, the RPC layer saved
\* on the packet, and whether the reader was repositioned on this record
decode_payload(stream, seg, d) ==
    IF 53 \in {src_port(seg.streamid), dst_port(seg.streamid)}
       \/ 88 \in {src_port(seg.streamid), dst_port(seg.streamid)}
    THEN \* DNS on port 53, KRB5 on port 88
         [stream |-> stream, rpc |-> NoRPC, seek |-> FALSE]
    ELSE
    LET rest == reposition(stream, seg.payload)
        size == Len(rest)
        \* Try decoding the RPC header before using the msfrag data
        direct == Len(stream.msfrag) > 0 /\ RPC(rest)
        st == IF direct \/ data_lost(stream, size, seg.rawflags)
              THEN [stream EXCEPT !.msfrag = <<>>, !.frag_off = 0]
              ELSE stream
        data == IF direct THEN rest ELSE insert(st.msfrag, rest)
        ldata == IF direct THEN size - MarkLen ELSE Len(data) - MarkLen
    IN
    IF ~RPC(data)
    THEN [stream |-> st, rpc |-> NoRPC, seek |-> FALSE]
    ELSE decode_rpc(st, seg, d, data, rest, size, ldata)

\* First half of _decode_payload, for a stream of the RPC ports: the payload
\* from the saved cursor, the stream after the resets, the buffer the RPC
\* header is decoded from and the bytes after its record mark
rpc_buffer(stream, seg) ==
    LET rest == reposition(stream, seg.payload)
        direct == Len(stream.msfrag) > 0 /\ RPC(rest)
        st == IF direct \/ data_lost(stream, Len(rest), seg.rawflags)
              THEN [stream EXCEPT !.msfrag = <<>>, !.frag_off = 0]
              ELSE stream
        data == IF direct THEN rest ELSE insert(st.msfrag, rest)
    IN [rest |-> rest, direct |-> direct, st |-> st, data |-> data,
        ldata |-> Len(data) - MarkLen]

\* An RPC fragment is missing to decode RPC payload: the RPC header decodes,
\* the capture record is not truncated and ldata < rpcsize
fragment_missing(stream, seg) ==
    LET b == rpc_buffer(stream, seg)
    IN /\ RPC(b.data)
       /\ seg.truncbytes = 0
       /\ b.ldata < fragment_hdr_size(b.data)

----------------------------------------------------------------------------
(* TCP.__init__ *)

\* a slip: last_seq is not brought back on SYN
syn_rebase_keeps_last_seq(stream, seg) ==
    IF SYN(seg.rawflags)
    THEN [stream EXCEPT !.seq_base = seg.seq_number]
    ELSE stream

\* Reset seq_base on SYN
syn_rebase(stream, seg) ==
    IF SYN(seg.rawflags)
    THEN [stream EXCEPT !.seq_base = seg.seq_number, !.last_seq = stream.seq_wrap]
    ELSE stream

\* Sequence number has reached the maximum and wrapped around
wrapped(stream, seg) ==
    seg.seq_number - stream.seq_base + stream.seq_wrap < stream.seq_wrap

\* Convert sequence numbers to relative numbers: the stream afterwards
wrap_stream(stream, seg) ==
    IF wrapped(stream, seg)
    THEN [stream EXCEPT !.seq_wrap = @ + SeqMod]
    ELSE stream

\* a slip: the wrapped sequence number is not lifted
relative_seq_not_lifted(stream, seg) ==
    seg.seq_number - stream.seq_base + stream.seq_wrap

\* Convert sequence numbers to relative numbers: self.seq
relative_seq(stream, seg) ==
    LET seq == seg.seq_number - stream.seq_base + stream.seq_wrap
    IN IF wrapped(stream, seg) THEN seq + SeqMod ELSE seq

\* This is a re-transmission, do not process
retransmission(seq, stream) == seq < stream.last_seq

\* a slip: last_seq follows the segments without payload too
save_last_seq_always(stream, length, seq) == [stream EXCEPT !.last_seq = seq]

\* stream['last_seq'] after the payload has been decoded
save_last_seq(stream, length, seq) ==
    IF length > 0 THEN [stream EXCEPT !.last_seq = seq] ELSE stream

\* the stream of a segment, created when the streamid is new
lookup(map, seg) ==
    IF seg.streamid \in DOMAIN map THEN map[seg.streamid]
    ELSE new_stream(seg.seq_number)

\* a slip: one state is kept for all the streams
store_shared(map, streamid, stream) ==
    [k \in DOMAIN map \cup {streamid} |-> stream]

\* the stream map with the stream of streamid set
store(map, streamid, stream) ==
    [k \in DOMAIN map \cup {streamid} |->
        IF k = streamid THEN stream ELSE map[k]]

\* a slip: last_seq follows every segment, dropped or not
drop_retransmission_moves_last_seq(stream, seq) == [stream EXCEPT !.last_seq = seq]

\* what a re-transmission leaves of the stream: return before the payload
drop_retransmission(stream, seq) == stream

\* TCP(pktt): decode one segment against the stream map; d is what the payload
\* decoder does if it is reached
TCP_init(map, seg, d) ==
    LET s1 == syn_rebase(lookup(map, seg), seg)
        seq == relative_seq(s1, seg)
        s2 == wrap_stream(s1, seg)
        length == Len(seg.payload)
        tcp == [streamid |-> seg.streamid, seq_number |-> seg.seq_number,
                seq |-> seq, length |-> length, rawflags |-> seg.rawflags,
                retrans |-> FALSE, rpc |-> NoRPC]
    IN
    IF retransmission(seq, s2)
    THEN [map |-> store(map, seg.streamid, drop_retransmission(s2, seq)),
          seek |-> FALSE,
          pkt |-> [tcp EXCEPT !.retrans = TRUE]]
    ELSE LET r == decode_payload(s2, seg, d)
         IN [map |-> store(map, seg.streamid, save_last_seq(r.stream, length, seq)),
             seek |-> r.seek,
             pkt |-> [tcp EXCEPT !.rpc = r.rpc]]

----------------------------------------------------------------------------
(* The capture reader *)

\* the record mark of a last fragment of the given size, big-endian
RECURSIVE pack_uint(_, _)
pack_uint(value, n) ==
    IF n = 0 THEN <<>>
    ELSE Append(pack_uint(value \div Radix, n - 1), value % Radix)

\* one complete RPC record: record mark, header, body
Record(body) ==
    pack_uint(LastFragBit + HdrLen + Len(body), MarkLen)
        \o [i \in 1..HdrLen |-> 1] \o body

\* the payloads of the captures: nothing, a stray byte, a record cut inside its
\* mark, after its mark, after its header, whole records, and a whole record
\* followed by a stray byte, by a cut record, or by more whole records
Payloads ==
    {<<>>, <<0>>}
    \cup {read(Record(<<0>>), n) : n \in {2, 4, 5, 6}}
    \cup {Record(<<>>) \o t :
            t \in {<<>>, <<0>>, <<1, 0>>, read(Record(<<0>>), 5), Record(<<0>>),
                   Record(<<>>), Record(<<0>>) \o <<0>>,
                   Record(<<>>) \o Record(<<>>)}}

\* capture records of one stream, for the reassembler
Segments ==
    [streamid : {NFS_CALL}, seq_number : {0, 1}, rawflags : RawFlags,
     payload : Payloads, truncbytes : {0, 1}]

\* the last accepted payload-bearing segment of each stream: its seq, and how
\* many such segments (counted up to 2) came since the last SYN of the stream
note_accepted(acc, p) ==
    LET old == IF p.streamid \in DOMAIN acc THEN acc[p.streamid]
               ELSE [seq |-> -1, n |-> 0]
        syn == IF SYN(p.rawflags) THEN [old EXCEPT !.n = 0] ELSE old
        new == IF ~p.retrans /\ p.length > 0
               THEN [seq |-> p.seq, n |-> Min(syn.n + 1, 2)]
               ELSE syn
    IN [k \in DOMAIN acc \cup {p.streamid} |->
           IF k = p.streamid THEN new ELSE acc[k]]

\* one decode of capture record seg: TCP(pktt), what it leaves on the packet,
\* and the reader's position after it
Step(seg, d) ==
    LET r == TCP_init(tcp_stream_map, seg, d)
    IN /\ tcp_stream_map' = r.map
       /\ pkt' = r.pkt
       /\ reread' = IF r.seek THEN seg ELSE NoRecord
       /\ accepted' = note_accepted(accepted, r.pkt)

Init ==
    /\ tcp_stream_map = <<>>
    /\ pkt = NoPkt
    /\ reread = NoRecord
    /\ feed = NoFeed
    /\ npkt = 0
    /\ log = <<>>
    /\ accepted = <<>>
    /\ before = <<>>

\* the reader reads the next capture record
Deliver ==
    /\ reread = NoRecord
    /\ npkt < MaxPkts
    /\ \E seg \in Segments, d \in Decoders : Step(seg, d)
    /\ npkt' = npkt + 1
    /\ UNCHANGED <<feed, log, before>>

\* pktt.seek(pktt.boffset): the reader reads the same capture record again
ReEnter ==
    /\ reread # NoRecord
    /\ \E d \in Decoders : Step(reread, d)
    /\ UNCHANGED <<feed, npkt, log, before>>

Next == Deliver \/ ReEnter

Spec == Init /\ [][Next]_vars

----------------------------------------------------------------------------
(* Scripted captures: the reader plays the capture records of feed in order *)

\* a capture record that is not truncated
Segment(sid, seq_number, rawflags, payload) ==
    [streamid |-> sid, seq_number |-> seq_number, rawflags |-> rawflags,
     payload |-> payload, truncbytes |-> 0]

\* the reader reads the record it is positioned on: the same record again
\* after pktt.seek(pktt.boffset), the next record of the capture otherwise.
\* The records of a script are well formed and the payload decoder reads each
\* to its end.  Every RPC layer saved on a packet is logged.
Play ==
    /\ reread # NoRecord \/ npkt < Len(feed.segs)
    /\ LET seg == IF reread # NoRecord THEN reread ELSE feed.segs[npkt + 1]
       IN Step(seg, WellFormedDecode)
    /\ npkt' = IF reread # NoRecord THEN npkt ELSE npkt + 1
    /\ log' = IF pkt'.rpc # NoRPC
              THEN Append(log, [npkt |-> npkt', off |-> pkt'.rpc.off,
                                data |-> pkt'.rpc.data])
              ELSE log
    /\ before' = tcp_stream_map
    /\ UNCHANGED feed

\* the script has been played to its end
Played == reread = NoRecord /\ npkt = Len(feed.segs) /\ npkt > 0

InitScript(segs, records) ==
    /\ tcp_stream_map = <<>>
    /\ pkt = NoPkt
    /\ reread = NoRecord
    /\ feed = [segs |-> segs, records |-> records]
    /\ npkt = 0
    /\ log = <<>>
    /\ accepted = <<>>
    /\ before = <<>>

\* data cut at the offsets of cuts, from offset from on
RECURSIVE Pieces(_, _, _)
Pieces(data, cuts, from) ==
    LET later == {c \in cuts : c > from}
    IN IF later = {} THEN <<SubSeq(data, from + 1, Len(data))>>
       ELSE LET c == CHOOSE x \in later : \A y \in later : x <= y
            IN <<SubSeq(data, from + 1, c)>> \o Pieces(data, cuts, c)

\* total length of the first n strings of ps
RECURSIVE Offset(_, _)
Offset(ps, n) == IF n = 0 THEN 0 ELSE Offset(ps, n - 1) + Len(ps[n])

\* consecutive in-order segments of one stream carrying the payloads ps, the
\* first with sequence number first_seq and raw flags first_flags
InOrder(ps, first_seq, first_flags) ==
    [i \in 1..Len(ps) |->
        Segment(NFS_CALL, (first_seq + Offset(ps, i - 1)) % SeqMod,
                IF i = 1 THEN first_flags ELSE ACK_ONLY, ps[i])]

\* bodies of the records that are split: the last one reads as a record itself
SplitBodies == {<<>>, <<0>>, <<0, 1>>, Record(<<>>)}

\* one record split into consecutive non-empty segments at any set of offsets
InitSplit ==
    \E body \in SplitBodies :
        \E cuts \in SUBSET (1..(Len(Record(body)) - 1)) :
            InitScript(InOrder(Pieces(Record(body), cuts, 0), 0, ACK_ONLY),
                       <<Record(body)>>)

SpecSplit == InitSplit /\ [][Play]_vars

\* most records in one segment
MaxRecords == 3

ConcatBodies == {<<>>, <<0>>, <<1>>, <<1, 0>>}

\* the concatenation of the strings of ps
RECURSIVE Concat(_)
Concat(ps) == IF ps = <<>> THEN <<>> ELSE Head(ps) \o Concat(Tail(ps))

\* one segment that holds K whole records
InitConcat ==
    \E K \in 1..MaxRecords :
        \E bodies \in [1..K -> ConcatBodies] :
            LET records == [i \in 1..K |-> Record(bodies[i])]
            IN InitScript(InOrder(<<Concat(records)>>, 0, ACK_ONLY), records)

SpecConcat == InitConcat /\ [][Play]_vars

\* segments of an in-order stream
MaxInOrder == 4

\* a payload of n bytes that is no RPC header
Zeros(n) == [i \in 1..n |-> 0]

\* an in-order stream from any first sequence number, SYN or not, of segments
\* of 0 to 2 bytes: the sequence number may wrap
InitWrap ==
    \E first_seq \in 0..(SeqMod - 1), first_flags \in {2, ACK_ONLY} :
        \E lens \in [1..MaxInOrder -> 0..2] :
            InitScript(InOrder([i \in 1..MaxInOrder |-> Zeros(lens[i])],
                               first_seq, first_flags), <<>>)

SpecWrap == InitWrap /\ [][Play]_vars

\* as Play, with a payload decoder that may return nothing or read short
PlayAny ==
    /\ reread # NoRecord \/ npkt < Len(feed.segs)
    /\ LET seg == IF reread # NoRecord THEN reread ELSE feed.segs[npkt + 1]
       IN \E d \in Decoders : Step(seg, d)
    /\ npkt' = IF reread # NoRecord THEN npkt ELSE npkt + 1
    /\ log' = IF pkt'.rpc # NoRPC
              THEN Append(log, [npkt |-> npkt', off |-> pkt'.rpc.off,
                                data |-> pkt'.rpc.data])
              ELSE log
    /\ before' = tcp_stream_map
    /\ UNCHANGED feed

\* the payloads of Payloads, the header of a record with two more bytes to
\* come, and the end of a record whose body reads as a record
FragPayloads ==
    Payloads \cup {read(Record(<<0, 1>>), 5), seek(Record(Record(<<>>)), 4)}

\* any capture record of the stream at sequence number seq_number
FragSegments(seq_number) ==
    [streamid : {NFS_CALL}, seq_number : {seq_number}, rawflags : RawFlags,
     payload : FragPayloads, truncbytes : {0, 1}]

\* two consecutive capture records of one stream, of any flags, payloads and
\* capture lengths
InitFrags ==
    \E first \in FragSegments(0) :
        \E second \in FragSegments(Len(first.payload) % SeqMod) :
            InitScript(<<first, second>>, <<>>)

SpecFrags == InitFrags /\ [][PlayAny]_vars

----------------------------------------------------------------------------
(* Captures of several streams, for the sequence numbers *)

\* segments of the call stream with any sequence number, with and without
\* SYN, with and without payload; segments of the reverse direction and of a
\* DNS stream between them
SeqSegments ==
    {Segment(NFS_CALL, n, f, p) :
        n \in 0..(SeqMod - 1), f \in {ACK_ONLY, 2}, p \in {<<>>, <<0>>}}
    \cup {Segment(NFS_REPLY, 1, ACK_ONLY, p) : p \in {<<>>, <<0>>}}
    \cup {Segment(DNS_QUERY, 0, ACK_ONLY, <<0>>)}

\* capture records read in one behaviour of SpecSeq
MaxSeqPkts == 4

\* the reader reads the next capture record, of any of the streams
DeliverSeq ==
    /\ npkt < MaxSeqPkts
    /\ \E seg \in SeqSegments : Step(seg, WellFormedDecode)
    /\ npkt' = npkt + 1
    /\ before' = tcp_stream_map
    /\ UNCHANGED <<feed, log>>

SpecSeq == Init /\ [][DeliverSeq]_vars

----------------------------------------------------------------------------
(* The TCP header: frames of any length and any header length field *)

\* bytes of the fixed TCP header: unpack.unpack(20, "!HHIIHHHH")
FixedHeader == 20
\* bytes in one word of the header length field: self.header_size = 4*self.hl
WordLen == 4
\* most bytes of a frame from the start of the TCP header
MaxFrame == 24

\* self.header_size
header_size(hl) == WordLen * hl

\* osize: the bytes of the options, when self.header_size > 20
options_size(hl) ==
    IF header_size(hl) > FixedHeader THEN header_size(hl) - FixedHeader ELSE 0

\* Decode the TCP layer header of a frame of nbytes bytes with header length
\* field hl: whether the fixed header could not be unpacked, and self.length,
\* the bytes left after the fixed header and what could be read of the options
TCP_header(nbytes, hl) ==
    [short |-> nbytes < FixedHeader,
     header_size |-> header_size(hl),
     length |-> (nbytes - FixedHeader) - Min(options_size(hl), nbytes - FixedHeader)]

\* a frame: a capture record with the length of its buffer and its header
\* length field
Frames ==
    [streamid : {NFS_CALL}, seq_number : {0}, rawflags : {ACK_ONLY},
     nbytes : 0..MaxFrame, hl : 0..15]

\* the reader hands a frame to the TCP layer: the header is decoded, and the
\* segment goes on to the sequence numbers and the payload unless the fixed
\* header could not be unpacked; the log tells which
DecodeFrame ==
    /\ reread = NoRecord /\ npkt < Len(feed.segs)
    /\ LET f == feed.segs[npkt + 1]
           h == TCP_header(f.nbytes, f.hl)
       IN IF h.short
          THEN /\ log' = Append(log, [npkt |-> npkt + 1, decoded |-> FALSE])
               /\ UNCHANGED <<tcp_stream_map, pkt, reread, accepted>>
          ELSE /\ Step(Segment(f.streamid, f.seq_number, f.rawflags,
                               Zeros(h.length)), WellFormedDecode)
               /\ log' = Append(log, [npkt |-> npkt + 1, decoded |-> TRUE])
    /\ npkt' = npkt + 1
    /\ before' = tcp_stream_map
    /\ UNCHANGED feed

InitHeader == \E f \in Frames : InitScript(<<f>>, <<>>)

SpecHeader == InitHeader /\ [][DecodeFrame]_vars

----------------------------------------------------------------------------
(* Properties of the reassembler and of the retransmission rule, under Spec *)

Streams == DOMAIN tcp_stream_map

\* C1 as stated: after any segment, no stream has msfrag non-empty and
\* frag_off greater than zero at the same time.
C1_FragmentOrOffset ==
    \A sid \in Streams :
        ~(Len(tcp_stream_map[sid].msfrag) > 0 /\ tcp_stream_map[sid].frag_off > 0)

\* C1 amended: a decode leaves msfrag non-empty together with frag_off > 0
\* only if it emitted an RPC record (the bytes after the record are kept in
\* msfrag and frag_off is their offset) or frag_off was already greater than
\* zero before it; a decode that finds frag_off = 0 and emits no RPC record
\* leaves msfrag empty or frag_off zero.
C1_OffsetOnlyWithRecord ==
    [][\A sid \in DOMAIN tcp_stream_map' :
          (Len(tcp_stream_map'[sid].msfrag) > 0 /\ tcp_stream_map'[sid].frag_off > 0)
          => \/ pkt'.rpc # NoRPC
             \/ sid \in Streams /\ tcp_stream_map[sid].frag_off > 0]_vars

\* a record was emitted and the bytes after it were kept: both are non-zero
C1_Witness ==
    /\ pkt.rpc # NoRPC
    /\ pkt.streamid \in Streams
    /\ Len(tcp_stream_map[pkt.streamid].msfrag) > 0
    /\ tcp_stream_map[pkt.streamid].frag_off > 0

\* C2: a segment dropped as a retransmission leaves last_seq, msfrag and
\* frag_off of its stream as they were, and its payload does not reach the
\* reassembler: no RPC layer, no repositioning of the reader.
C2_RetransmissionFrame ==
    [][pkt'.retrans =>
          /\ pkt'.streamid \in Streams
          /\ tcp_stream_map'[pkt'.streamid].last_seq
                = tcp_stream_map[pkt'.streamid].last_seq
          /\ tcp_stream_map'[pkt'.streamid].msfrag
                = tcp_stream_map[pkt'.streamid].msfrag
          /\ tcp_stream_map'[pkt'.streamid].frag_off
                = tcp_stream_map[pkt'.streamid].frag_off
          /\ pkt'.rpc = NoRPC
          /\ reread' = NoRecord]_vars

\* a payload-bearing retransmission was dropped while a fragment was kept
C2_Witness ==
    /\ pkt.retrans
    /\ pkt.length > 0
    /\ Len(tcp_stream_map[pkt.streamid].msfrag) > 0
    /\ tcp_stream_map[pkt.streamid].last_seq > pkt.seq

\* C5: the seq of an accepted payload-bearing segment is greater than the seq
\* of the accepted payload-bearing segment before it on the stream; stated for
\* the segments that follow one another with no SYN in between, where seq_base
\* does not move.
C5_StrictlyIncreasing ==
    [][(/\ npkt' = npkt + 1
        /\ ~pkt'.retrans /\ pkt'.length > 0
        /\ ~SYN(pkt'.rawflags)
        /\ pkt'.streamid \in DOMAIN accepted
        /\ accepted[pkt'.streamid].n >= 1)
       => pkt'.seq > accepted[pkt'.streamid].seq]_vars

\* the segments of stream sid with no payload and just the ACK flag
AckOnly(sid) ==
    {seg \in Segments :
        seg.streamid = sid /\ seg.rawflags = ACK_ONLY /\ seg.payload = <<>>}

\* C6 as stated: whatever the capture lengths of its record, a segment with
\* raw flags 0x10 and no payload leaves a non-empty msfrag as it is.
C6_AckKeepsFragment ==
    \A sid \in Streams :
        (reread = NoRecord /\ Len(tcp_stream_map[sid].msfrag) > 0)
        => \A seg \in AckOnly(sid), d \in Decoders :
              TCP_init(tcp_stream_map, seg, d).map[sid].msfrag
                 = tcp_stream_map[sid].msfrag

\* C6 amended: a segment with raw flags 0x10 and no payload, in a capture
\* record that is not truncated (length_orig = length_inc), leaves a non-empty
\* msfrag as it is.
C6_AckKeepsFragmentUntruncated ==
    \A sid \in Streams :
        (reread = NoRecord /\ Len(tcp_stream_map[sid].msfrag) > 0)
        => \A seg \in AckOnly(sid), d \in Decoders :
              seg.truncbytes = 0
              => TCP_init(tcp_stream_map, seg, d).map[sid].msfrag
                    = tcp_stream_map[sid].msfrag

\* a plain ACK without payload was decoded and the fragment is still there
C6_Witness ==
    /\ pkt.rawflags = ACK_ONLY /\ pkt.length = 0 /\ ~pkt.retrans
    /\ npkt >= 2
    /\ Len(tcp_stream_map[pkt.streamid].msfrag) > 0

\* C7: a segment with the sequence number and the payload length of the
\* payload-bearing segment accepted just before it on the stream is dropped as
\* a retransmission, and last_seq stays as the first one left it.
C7_DuplicateDropped ==
    [][(/\ npkt' = npkt + 1
        /\ ~pkt.retrans /\ pkt.length > 0
        /\ pkt'.streamid = pkt.streamid
        /\ pkt'.seq_number = pkt.seq_number
        /\ pkt'.length = pkt.length
        /\ ~SYN(pkt'.rawflags))
       => /\ pkt'.retrans
          /\ pkt'.rpc = NoRPC
          /\ tcp_stream_map'[pkt.streamid].last_seq
                = tcp_stream_map[pkt.streamid].last_seq]_vars

\* the accepted segments of stream sid that hold exactly one whole record, in a
\* capture record that is not truncated
WholeRecord(sid) ==
    {seg \in Segments :
        /\ seg.streamid = sid
        /\ seg.truncbytes = 0
        /\ seg.payload \in {Record(<<>>), Record(<<0>>)}}

\* C10: at every capture-record boundary, whatever the stream holds, the next
\* accepted segment that is exactly one whole well-formed record has that
\* record emitted and leaves msfrag empty and frag_off = 0.
C10_Resync ==
    \A sid \in Streams :
        reread = NoRecord
        => \A seg \in WholeRecord(sid) :
              LET r == TCP_init(tcp_stream_map, seg, WellFormedDecode)
              IN ~r.pkt.retrans
                 => /\ r.pkt.rpc # NoRPC
                    /\ r.pkt.rpc.data = seg.payload
                    /\ r.map[sid].msfrag = <<>>
                    /\ r.map[sid].frag_off = 0

----------------------------------------------------------------------------
(* Properties of the scripted captures *)

\* C3: under SpecSplit, when one record has been played in N in-order
\* non-empty segments, wherever it was cut, exactly one RPC layer was emitted,
\* on the last segment, built from the whole record, and msfrag is empty.
C3_SplitRoundTrip ==
    Played =>
        /\ Len(log) = 1
        /\ log[1].npkt = Len(feed.segs)
        /\ log[1].data = feed.records[1]
        /\ tcp_stream_map[NFS_CALL].msfrag = <<>>

\* byte offset of the i-th record of a script within the payload
RecordOffset(i) == Offset(feed.records, i - 1)

\* C4: under SpecConcat, when a segment made of K whole records has been
\* played, re-entries included, K RPC layers were emitted, the i-th from the
\* offset where the i-th record starts and built from that record, and the
\* stream has msfrag empty and frag_off = 0.
C4_ConcatRoundTrip ==
    Played =>
        /\ Len(log) = Len(feed.records)
        /\ \A i \in 1..Len(log) :
              /\ log[i].off = RecordOffset(i)
              /\ log[i].data = feed.records[i]
        /\ tcp_stream_map[NFS_CALL].msfrag = <<>>
        /\ tcp_stream_map[NFS_CALL].frag_off = 0

\* three records of different sizes were emitted from one segment
C4_Witness ==
    /\ Played
    /\ Len(feed.records) = 3
    /\ Len(log) = 3
    /\ Len(feed.records[1]) # Len(feed.records[2])
    /\ log[3].off = Len(feed.records[1]) + Len(feed.records[2])

\* C8: under SpecWrap, the seq of every segment is at least 0 and at least the
\* seq of the segment before it, and greater when that segment had payload,
\* also where the sequence number wraps.
C8_SeqKeepsIncreasing ==
    [][npkt' = npkt + 1 =>
          /\ pkt'.seq >= 0
          /\ npkt >= 1 => /\ pkt'.seq >= pkt.seq
                          /\ pkt.length > 0 => pkt'.seq > pkt.seq]_vars

\* bytes of the script before its n-th segment
BytesBefore(n) == Offset([i \in 1..Len(feed.segs) |-> feed.segs[i].payload], n - 1)

\* C9: under SpecWrap, for a stream whose first sequence number is the highest
\* one (seq_base = SeqMod - 1), seq_wrap is SeqMod times the number of wraps of
\* the sequence number so far, and the seq of a segment is the number of bytes
\* between seq_base and its first byte.
C9_WrapCountsWraps ==
    (npkt >= 1 /\ feed.segs[1].seq_number = SeqMod - 1) =>
        /\ tcp_stream_map[NFS_CALL].seq_wrap
              = SeqMod * ((feed.segs[1].seq_number + BytesBefore(npkt)) \div SeqMod)
        /\ pkt.seq = BytesBefore(npkt)

----------------------------------------------------------------------------
(* Properties of the reassembler over two capture records, under SpecFrags *)

\* the stream of the record being read, as the decode found it
Before == before[pkt.streamid]
\* the stream of the record being read, as the decode left it
After == tcp_stream_map[pkt.streamid]
\* the record being read is the second of the script, on a stream that was there
ReadNext == npkt >= 2 /\ pkt.streamid \in DOMAIN before

\* C11: an accepted segment with an empty payload and raw flags other than
\* 0x10, read while msfrag is non-empty, leaves msfrag empty and frag_off = 0
\* and no RPC layer is saved for it.
C11_LossReset ==
    (/\ ReadNext
     /\ pkt.length = 0 /\ pkt.rawflags # ACK_ONLY /\ ~pkt.retrans
     /\ Len(Before.msfrag) > 0)
    => /\ After.msfrag = <<>>
       /\ After.frag_off = 0
       /\ pkt.rpc = NoRPC

\* a FIN+ACK without payload found a fragment with an offset and cleared both
C11_Witness ==
    /\ ReadNext
    /\ pkt.length = 0 /\ pkt.rawflags = 17 /\ ~pkt.retrans
    /\ Len(Before.msfrag) > 0 /\ Before.frag_off > 0
    /\ After.msfrag = <<>> /\ After.frag_off = 0

\* the RPC record saved on the packet ends where the payload ends: ldata = rpcsize
EndsPayload ==
    /\ pkt.rpc # NoRPC
    /\ pkt.rpc.off + MarkLen + pkt.rpc.size = pkt.length

\* C12: whenever an RPC record is emitted that ends exactly at the end of the
\* payload, msfrag is empty and frag_off is 0 when the decode of the segment
\* returns, whatever the payload decoder returned or read.
C12_CleanAfterExactRecord ==
    EndsPayload => After.msfrag = <<>> /\ After.frag_off = 0

----------------------------------------------------------------------------
(* Properties of the sequence numbers over several streams, under SpecSeq *)

\* C13: last_seq of a stream changes only when an accepted segment of the
\* stream with payload sets it to its seq, or when a SYN segment of the stream
\* sets it to seq_wrap; a segment without payload and without SYN leaves it.
C13_LastSeqFrame ==
    /\ \A sid \in DOMAIN before :
          tcp_stream_map[sid].last_seq # before[sid].last_seq
          => /\ sid = pkt.streamid
             /\ \/ /\ ~pkt.retrans /\ pkt.length > 0
                   /\ After.last_seq = pkt.seq
                \/ /\ SYN(pkt.rawflags)
                   /\ After.last_seq = After.seq_wrap
    /\ (pkt.streamid \in DOMAIN before /\ pkt.length = 0 /\ ~SYN(pkt.rawflags))
       => After.last_seq = Before.last_seq

\* a plain ACK further on in the stream was accepted and last_seq stayed behind
C13_Witness ==
    /\ pkt.streamid \in DOMAIN before
    /\ pkt.length = 0 /\ ~SYN(pkt.rawflags) /\ ~pkt.retrans
    /\ Before.last_seq > 0
    /\ pkt.seq > Before.last_seq
    /\ After.last_seq = Before.last_seq

\* C14: a segment whose streamid is new gets a fresh stream (msfrag empty,
\* frag_off 0, last_seq 0, seq_wrap 0, seq_base its sequence number), and the
\* segment changes the stream of its own streamid only: the stream of every
\* other streamid, the reverse direction included, stays as it was.
C14_StreamFrame ==
    npkt >= 1 =>
        /\ DOMAIN tcp_stream_map = DOMAIN before \cup {pkt.streamid}
        /\ \A sid \in DOMAIN before :
              sid # pkt.streamid => tcp_stream_map[sid] = before[sid]
        /\ pkt.streamid \notin DOMAIN before
           => /\ After = new_stream(pkt.seq_number)
              /\ pkt.seq = 0 /\ ~pkt.retrans

\* the first segment of the reverse direction arrived while the call stream
\* was under way
C14_Witness ==
    /\ pkt.streamid = NFS_REPLY
    /\ pkt.streamid \notin DOMAIN before
    /\ NFS_CALL \in DOMAIN before
    /\ before[NFS_CALL].last_seq > 0
    /\ before[NFS_CALL].seq_base # pkt.seq_number
    /\ tcp_stream_map[NFS_CALL] = before[NFS_CALL]

\* C15: after a segment with the SYN flag, seq_base is its sequence number and
\* last_seq is seq_wrap; its seq is seq_wrap, seq_wrap is what it was before
\* the segment (0 for a new stream), and the segment is not dropped as a
\* re-transmission.
C15_SynRebase ==
    (npkt >= 1 /\ SYN(pkt.rawflags))
    => /\ After.seq_base = pkt.seq_number
       /\ After.last_seq = After.seq_wrap
       /\ pkt.seq = After.seq_wrap
       /\ After.seq_wrap = IF pkt.streamid \in DOMAIN before
                           THEN Before.seq_wrap ELSE 0
       /\ ~pkt.retrans

\* a SYN in the middle of a stream that had wrapped and moved on
C15_Witness ==
    /\ SYN(pkt.rawflags)
    /\ pkt.streamid \in DOMAIN before
    /\ Before.seq_wrap > 0
    /\ Before.last_seq # Before.seq_wrap
    /\ Before.seq_base # pkt.seq_number
    /\ After.last_seq = After.seq_wrap

\* C18: a segment dropped as a re-transmission leaves the whole stream as it
\* was, seq_wrap and seq_base included: no segment counts a wrap or moves
\* seq_base and is then dropped.
C18_RetransmissionKeepsStream ==
    pkt.retrans => pkt.streamid \in DOMAIN before /\ After = Before

\* a payload-bearing segment was dropped on a stream that had wrapped
C18_Witness ==
    /\ pkt.retrans /\ pkt.length > 0
    /\ Before.seq_wrap > 0
    /\ Before.seq_base > 0
    /\ After = Before

----------------------------------------------------------------------------
(* Properties of the fragments kept in msfrag, under SpecFrags *)

\* the capture record being read
Reading == feed.segs[npkt]
\* its stream as the decode found it, fresh when the streamid is new
Found == lookup(before, Reading)

\* C16 as stated: when the RPC header decodes, the capture record is not
\* truncated and ldata < rpcsize, no RPC layer is saved and msfrag afterwards
\* is the msfrag found followed by the payload of the segment from the cursor.
C16_FragmentAppended ==
    (npkt >= 1 /\ ~pkt.retrans /\ fragment_missing(Found, Reading))
    => /\ pkt.rpc = NoRPC
       /\ After.msfrag = Found.msfrag \o rpc_buffer(Found, Reading).rest

\* C16 amended: in that case no RPC layer is saved and msfrag afterwards is the
\* msfrag kept by the resets (the msfrag found, or nothing when the payload
\* alone starts with a valid RPC header) followed once by the payload of the
\* segment from the cursor, so it grows by the length of that payload.
C16_FragmentAppendedAfterResync ==
    (npkt >= 1 /\ ~pkt.retrans /\ fragment_missing(Found, Reading))
    => LET b == rpc_buffer(Found, Reading)
       IN /\ pkt.rpc = NoRPC
          /\ After.msfrag = b.st.msfrag \o b.rest
          /\ b.st.msfrag = IF b.direct THEN <<>> ELSE Found.msfrag
          /\ Len(After.msfrag) = Len(b.st.msfrag) + Len(b.rest)

\* a segment was appended to a fragment that was there and the record is
\* still incomplete
C16_Witness ==
    /\ npkt = 2 /\ ~pkt.retrans
    /\ fragment_missing(Found, Reading)
    /\ Len(Found.msfrag) > 0
    /\ Len(Reading.payload) > 0
    /\ ~rpc_buffer(Found, Reading).direct
    /\ After.msfrag = Found.msfrag \o Reading.payload

\* C19: whenever the decode of a capture record returns without repositioning
\* the reader for a re-entry, frag_off is 0 or msfrag is non-empty, so that no
\* other segment has its first frag_off bytes skipped.
C19_NoStaleOffset ==
    reread = NoRecord
    => \A sid \in Streams :
          tcp_stream_map[sid].frag_off = 0 \/ Len(tcp_stream_map[sid].msfrag) > 0

----------------------------------------------------------------------------
(* Properties of the TCP header, under SpecHeader *)

\* C17: every frame that went on to the sequence numbers and the payload has
\* 20 <= header_size <= the bytes of its buffer, and a frame with fewer than
\* 20 bytes or with header_size beyond its buffer was refused.
C17_HeaderValidated ==
    \A i \in 1..Len(log) :
        LET f == feed.segs[log[i].npkt]
        IN log[i].decoded
           <=> (FixedHeader <= header_size(f.hl) /\ header_size(f.hl) <= f.nbytes)

----------------------------------------------------------------------------
(* Re-entry: the capture record is read again until its payload is used up *)

\* first capture records that leave the stream untouched, with a frag_off
\* beside a kept byte, with a frag_off and no fragment, or with the head of a
\* record kept in msfrag: its last byte or its last two bytes are to come
StaleFirsts ==
    {Segment(NFS_CALL, 0, ACK_ONLY, p) :
        p \in {<<>>, Record(<<>>) \o <<0>>,
               Record(<<>>) \o Record(<<0>>) \o <<0>>,
               read(Record(<<0>>), 5), read(Record(<<0, 0>>), 6),
               read(Record(<<0, 0>>), 5)}}

\* what may follow the end of a record in a payload: nothing, bytes that do
\* not make a record, or whole records
Followers ==
    {<<>>, <<0, 1, 1>>, Record(<<>>), Record(<<>>) \o Record(<<>>)}

\* payloads of 1..MaxRecords whole records, alone or with one more byte, and
\* payloads that start with the last byte or the last two bytes of a record
\* whose head is in an earlier segment
ReEnterPayloads ==
    {Concat([i \in 1..K |-> Record(b)]) \o t :
        K \in 1..MaxRecords, b \in {<<>>, <<0>>}, t \in {<<>>, <<0>>}}
    \cup {end \o q : end \in {<<0>>, <<0, 0>>}, q \in Followers}

\* a capture of two records of one stream; the second holds whole RPC
\* records or the end of the record the first one started, and is whole or
\* truncated by one byte
InitReEnter ==
    \E first \in StaleFirsts :
        \E p \in ReEnterPayloads :
            \E tb \in {0, 1} :
                LET seg == Segment(NFS_CALL, Len(first.payload) % SeqMod, ACK_ONLY, p)
                IN InitScript(<<first, [seg EXCEPT !.truncbytes = tb]>>, <<>>)

\* the driver reads on for as long as the capture has a record to read or to
\* read again
SpecReEnter == InitReEnter /\ [][PlayAny]_vars /\ WF_vars(PlayAny)

\* the offset in the payload where the decode of the record being read
\* started: the frag_off found when no fragment was kept, 0 otherwise
Start == Len(Reading.payload) - Len(reposition(Found, Reading.payload))

\* C20: every time the capture record is to be decoded again, frag_off is
\* above the offset in the payload where that decode started, it is within 0
\* and the length of the payload, and that decode was not dropped as a
\* retransmission.
C20_OffsetIncreased ==
    reread # NoRecord
    => /\ After.frag_off > Start
       /\ 0 <= After.frag_off /\ After.frag_off <= Len(Reading.payload)
       /\ ~pkt.retrans

\* the driver reads a record again finitely many times only: the capture is
\* read to its end, no re-entry pending
ReadToEnd == <>(reread = NoRecord /\ npkt = Len(feed.segs))

====
